---- MODULE Spec2Model ----
(***************************************************************************)
(* Hook handlers of agent-spaces: log-all-bash.py (variant "A"),           *)
(* log-failed-bash.py (variant "B") and log-build-loop.py (variant "C").   *)
(*                                                                         *)
(* Text is a sequence of tokens.  Every character a producer controls      *)
(* (string values of the payload) and every punctuation character the      *)
(* handlers emit is one token of one character; a fixed identifier of the  *)
(* source (a key name, a tag, the words null/false/None) is one token      *)
(* standing for its run of letters.  Slicing counts tokens, so the strings *)
(* that the handlers slice are built of one-character tokens only.         *)
(***************************************************************************)
EXTENDS Integers, Sequences, FiniteSets, TLC

(***************************************************************************)
(* Bounds of the model.                                                    *)
(***************************************************************************)
NumProcs == 2        \* invocations the host dispatches concurrently
LongCmdLen == 45     \* length of the long command text (longer than CmdPrefix)
LongPromptLen == 103 \* length of the long prompt text (longer than PromptPrefix)

(***************************************************************************)
(* Program constants.                                                      *)
(***************************************************************************)
CmdPrefix == 40      \* [:40] of the console confirmation
PromptPrefix == 100  \* [:100] of the PROMPT summary
Indent == 2          \* json.dumps(log_entry, indent=2)
NoIndent == 0 - 1    \* json.dumps(x): indent=None

LF == "\n"
QUOTE == "\""
BSL == "\\"
SP == " "
\* the lone surrogate U+D800, which json.loads yields for the escape \ud800
Surrogate == "U+D800"

Min(a, b) == IF a < b THEN a ELSE b

RECURSIVE Rep(_, _)
Rep(c, k) == IF k <= 0 THEN <<>> ELSE <<c>> \o Rep(c, k - 1)

RECURSIVE Count(_, _)
Count(c, s) == IF s = <<>> THEN 0
               ELSE (IF Head(s) = c THEN 1 ELSE 0) + Count(c, Tail(s))

\* whether str.encode of the text succeeds (UnicodeEncodeError otherwise)
Encodable(s) == \A i \in 1..Len(s) : s[i] # Surrogate

IsPrefix(s, t) == Len(s) <= Len(t) /\ SubSeq(t, 1, Len(s)) = s

\* Python s[:k] on a str
Slice(s, k) == SubSeq(s, 1, Min(k, Len(s)))

(***************************************************************************)
(* JSON values as Python holds them after json.loads.                      *)
(***************************************************************************)
JStr(s) == [t |-> "str", s |-> s, n |-> 0, kv |-> <<>>]
JNull == [t |-> "null", s |-> <<>>, n |-> 0, kv |-> <<>>]
JFalse == [t |-> "false", s |-> <<>>, n |-> 0, kv |-> <<>>]
JInt(n) == [t |-> "int", s |-> <<>>, n |-> n, kv |-> <<>>]
JObj(kv) == [t |-> "obj", s |-> <<>>, n |-> 0, kv |-> kv]

HasKey(d, k) == \E i \in 1..Len(d.kv) : d.kv[i][1] = k

\* dict.get(k, default)
Get(d, k, default) ==
  IF HasKey(d, k)
  THEN d.kv[CHOOSE i \in 1..Len(d.kv) : d.kv[i][1] = k][2]
  ELSE default

\* truth value of a Python object (if x: ...)
Truthy(v) ==
  CASE v.t = "str" -> v.s # <<>>
    [] v.t = "null" -> FALSE
    [] v.t = "false" -> FALSE
    [] v.t = "int" -> v.n # 0
    [] v.t = "obj" -> v.kv # <<>>

Digits == <<"0", "1", "2", "3", "4", "5", "6", "7", "8", "9">>
IsDigit(c) == \E i \in 1..10 : Digits[i] = c
DigitVal(c) == (CHOOSE i \in 1..10 : Digits[i] = c) - 1

\* str(n) of a non-negative int
RECURSIVE IntText(_)
IntText(n) == IF n < 10 THEN <<Digits[n + 1]>>
              ELSE IntText(n \div 10) \o <<Digits[(n % 10) + 1]>>

\* the character escapes of json.dumps (ensure_ascii)
EscapeChar(c) ==
  CASE c = LF -> <<BSL, "n">>
    [] c = QUOTE -> <<BSL, QUOTE>>
    [] c = BSL -> <<BSL, BSL>>
    [] c = Surrogate -> <<BSL, "u", "d", "8", "0", "0">>
    [] OTHER -> <<c>>

RECURSIVE EscapeStr(_)
EscapeStr(s) == IF s = <<>> THEN <<>>
                ELSE EscapeChar(Head(s)) \o EscapeStr(Tail(s))

\* json.dumps(v, indent=indent); NoIndent is indent=None
RECURSIVE JsonDumps(_, _, _)
RECURSIVE DumpItems(_, _, _, _)
JsonDumps(v, indent, level) ==
  CASE v.t = "str" -> <<QUOTE>> \o EscapeStr(v.s) \o <<QUOTE>>
    [] v.t = "null" -> <<"null">>
    [] v.t = "false" -> <<"false">>
    [] v.t = "int" -> IntText(v.n)
    [] v.t = "obj" ->
         IF v.kv = <<>> THEN <<"{", "}">>
         ELSE <<"{">> \o DumpItems(v.kv, 1, indent, level + 1)
              \o (IF indent = NoIndent THEN <<>>
                  ELSE <<LF>> \o Rep(SP, indent * level))
              \o <<"}">>

DumpItems(kv, i, indent, level) ==
  IF i > Len(kv) THEN <<>>
  ELSE (IF indent = NoIndent THEN <<>> ELSE <<LF>> \o Rep(SP, indent * level))
       \o <<QUOTE, kv[i][1], QUOTE, ":", SP>>
       \o JsonDumps(kv[i][2], indent, level)
       \o (IF i = Len(kv) THEN <<>>
           ELSE IF indent = NoIndent THEN <<",", SP>> ELSE <<",">>)
       \o DumpItems(kv, i + 1, indent, level)

(***************************************************************************)
(* Regular expression of log-failed-bash.py: re.match(r"Exit code (\d+)"). *)
(***************************************************************************)
ExitPrefix == <<"E", "x", "i", "t", SP, "c", "o", "d", "e", SP>>

\* the longest run of digits at the head of s
RECURSIVE LeadingDigits(_)
LeadingDigits(s) ==
  IF s # <<>> /\ IsDigit(Head(s)) THEN <<Head(s)>> \o LeadingDigits(Tail(s))
  ELSE <<>>

\* int(digits)
RECURSIVE ParseInt(_)
ParseInt(ds) ==
  IF ds = <<>> THEN 0
  ELSE 10 * ParseInt(SubSeq(ds, 1, Len(ds) - 1)) + DigitVal(ds[Len(ds)])

\* match.group(1) of re.match(r"Exit code (\d+)", s), <<>> when no match
MatchGroup(s) ==
  IF IsPrefix(ExitPrefix, s)
  THEN LeadingDigits(SubSeq(s, Len(ExitPrefix) + 1, Len(s)))
  ELSE <<>>

\* lines 31-35 of log-failed-bash.py
ExitCodeOf(error_message) ==
  IF Truthy(error_message) /\ MatchGroup(error_message.s) # <<>>
  THEN JInt(ParseInt(MatchGroup(error_message.s)))
  ELSE JNull

(***************************************************************************)
(* Payloads the host runtime sends.  A key is absent or holds a value of   *)
(* the type the producer gives it; JSON null stands for "no value".        *)
(***************************************************************************)
Absent == [t |-> "absent", s |-> <<>>, n |-> 0, kv |-> <<>>]
Opt(k, v) == IF v = Absent THEN <<>> ELSE << <<k, v>> >>

Bash == JStr(<<"B", "a", "s", "h">>)
Edit == JStr(<<"E", "d", "i", "t">>)
NA == JStr(<<"N", "/", "A">>)
Pi == JStr(<<"p", "i">>)

CmdShort == JStr(<<"l", "s">>)
CmdLong == JStr(Rep("x", LongCmdLen))
CmdLines == JStr(<<"a", LF, "b">>)
CmdSurrogate == JStr(<<"a", Surrogate>>)

ToolNames == {Absent, JNull, Bash, Edit}
ToolInputs ==
  {Absent, JObj(<<>>)}
  \cup {JObj(<< <<"command", c>> >>) : c \in {CmdShort, CmdLong, CmdLines, CmdSurrogate, JNull}}
  \cup {JObj(<< <<"command", CmdShort>>, <<"description", JStr(<<"d">>)>> >>)}

ErrNotFound ==
  JStr(ExitPrefix \o <<"1", "2", "7", ":", SP, "command", SP, "not", SP, "found">>)
Errors ==
  {Absent, JNull, JStr(<<>>), ErrNotFound,
   JStr(ExitPrefix \o <<"4", "2">>),
   JStr(ExitPrefix \o <<"0", "7", LF, "x">>),
   JStr(ExitPrefix),
   JStr(ExitPrefix \o <<"x", "1">>),
   JStr(<<SP>> \o ExitPrefix \o <<"5">>),
   JStr(<<"e", "x", "i", "t", SP, "c", "o", "d", "e", SP, "5">>),
   JStr(<<"b", "o", "o", "m">>)}

RecognisedEvents ==
  {<<"PreToolUse">>, <<"PostToolUse">>, <<"SubagentStop">>, <<"Stop">>,
   <<"UserPromptSubmit">>, <<"SessionStart">>, <<"Notification">>}
HookEvents ==
  {Absent, JNull, JStr(<<"PreCompact">>)} \cup {JStr(e) : e \in RecognisedEvents}

PromptLong == JStr(Rep("p", LongPromptLen))
Prompts == {Absent, JNull, JStr(<<>>), JStr(<<"h", "i">>), PromptLong,
            JStr(<<"a", LF, "b">>), JStr(<<"a", Surrogate>>)}

EventsA ==
  {JObj(Opt("tool_name", tn) \o Opt("tool_input", ti)
        \o Opt("hook_event_name", JStr(<<"PostToolUse">>))) :
     tn \in ToolNames, ti \in ToolInputs}

EventsB ==
  {JObj(Opt("tool_name", tn) \o Opt("tool_input", ti) \o Opt("error", er)
        \o Opt("session_id", sid)) :
     tn \in ToolNames, ti \in ToolInputs, er \in Errors,
     sid \in {Absent, JStr(<<"s", "1">>)}}

EventsC ==
  {JObj(Opt("hook_event_name", he) \o Opt("tool_name", tn)
        \o Opt("tool_input", ti) \o Opt("prompt", pr)) :
     he \in HookEvents, tn \in {Absent, Bash, JStr(<<"x", LF, "y">>)},
     ti \in {Absent, JObj(<< <<"command", CmdShort>> >>),
             JObj(<< <<"command", CmdLines>> >>)},
     pr \in Prompts}

EventsOf(h) == CASE h = "A" -> EventsA [] h = "B" -> EventsB [] h = "C" -> EventsC

\* values of ASP_TOOL_ARGS / ASP_TOOL_RESULT that are JSON
EnvDocs == {JObj(<<>>), JObj(<< <<"command", JStr(<<"x">>)>> >>)}

Documents == EventsA \cup EventsB \cup EventsC \cup EnvDocs

\* the JSON text of each document
TextOf(d) == JsonDumps(d, NoIndent, 0)

\* every JSON text with the value it denotes
JsonTexts == {<<TextOf(d), d>> : d \in Documents}

\* texts that are not JSON
Empty == <<>>
Blank == <<SP, LF>>
Garbage == <<"{", QUOTE, "tool_name">>

\* json.loads(raw): ok is FALSE when it raises JSONDecodeError
JsonLoads(raw) ==
  IF \E td \in JsonTexts : td[1] = raw
  THEN [ok |-> TRUE, v |-> (CHOOSE td \in JsonTexts : td[1] = raw)[2]]
  ELSE [ok |-> FALSE, v |-> JNull]

\* raw.strip() of a text that is only whitespace is the empty (false) string
IsBlank(raw) == \A i \in 1..Len(raw) : raw[i] \in {SP, LF}

Unset == [set |-> FALSE, v |-> <<>>]
SetTo(v) == [set |-> TRUE, v |-> v]
\* os.environ.get(name, default)
EnvGet(e, default) == IF e.set THEN e.v ELSE default

NoEnv == [name |-> Unset, args |-> Unset, result |-> Unset]

(***************************************************************************)
(* What the host runtime hands to one invocation: the text on standard     *)
(* input, the bridge environment variables, and whether the log file can   *)
(* be opened for appending.                                                *)
(***************************************************************************)
Envs ==
  [name : {Unset, SetTo(<<"B", "a", "s", "h">>)},
   args : {Unset, SetTo(TextOf(JObj(<< <<"command", JStr(<<"x">>)>> >>))),
           SetTo(<<"{">>)},
   result : {Unset, SetTo(<<"{", "}">>), SetTo(<<"{">>)}]

BashLs == JObj(<< <<"command", CmdShort>> >>)

SampleEvent(h) ==
  CASE h = "A" -> JObj(<< <<"tool_name", Bash>>, <<"tool_input", BashLs>>,
                          <<"hook_event_name", JStr(<<"PostToolUse">>)>> >>)
    [] h = "B" -> JObj(<< <<"tool_name", Bash>>, <<"tool_input", BashLs>>,
                          <<"error", ErrNotFound>> >>)
    [] h = "C" -> JObj(<< <<"hook_event_name", JStr(<<"PostToolUse">>)>>,
                          <<"tool_name", Bash>>, <<"tool_input", BashLs>> >>)

AllInputs(h) ==
  [stdin : {TextOf(e) : e \in EventsOf(h)} \cup {Empty, Blank, Garbage},
   env : {NoEnv}, writable : BOOLEAN]
  \cup [stdin : {TextOf(SampleEvent(h)), Empty, Blank, Garbage},
        env : Envs, writable : BOOLEAN]

InputsA == AllInputs("A")
InputsB == AllInputs("B")
InputsC == AllInputs("C")
Inputs(h) == CASE h = "A" -> InputsA [] h = "B" -> InputsB [] h = "C" -> InputsC

Handlers == {"A", "B", "C"}
Procs == 1..NumProcs
OldLog == <<"o", "l", "d", LF>>

VARIABLES
  handler,     \* which script the host runs in this run
  dispatched,  \* number of invocations the host dispatches
  log0,        \* content of the log file before the first invocation
  log,         \* content of the log file (LOG_FILE)
  clock,       \* datetime.now()
  order,       \* history: the invocations in the order of their appends
  pc,          \* position of each invocation
  stdin,       \* sys.stdin.read() of each invocation
  env,         \* os.environ of each invocation
  writable,    \* whether open(LOG_FILE, "a") and the write succeed
  hook_input,  \* hook_input
  log_entry,   \* log_entry (variants A, B)
  log_line,    \* log_line (variant C)
  out,         \* text printed to sys.stdout
  err,         \* text printed to sys.stderr
  status       \* process exit status, -1 while running

vars == <<handler, dispatched, log0, log, clock, order, pc, stdin, env,
          writable, hook_input, log_entry, log_line, out, err, status>>

InitWith(k) ==
  /\ handler \in Handlers
  /\ dispatched = k
  /\ log0 \in {<<>>, OldLog}
  /\ log = log0
  /\ clock = 0
  /\ order = <<>>
  /\ pc = [p \in Procs |-> "idle"]
  /\ stdin = [p \in Procs |-> Empty]
  /\ env = [p \in Procs |-> NoEnv]
  /\ writable = [p \in Procs |-> TRUE]
  /\ hook_input = [p \in Procs |-> JNull]
  /\ log_entry = [p \in Procs |-> JNull]
  /\ log_line = [p \in Procs |-> <<>>]
  /\ out = [p \in Procs |-> <<>>]
  /\ err = [p \in Procs |-> <<>>]
  /\ status = [p \in Procs |-> 0 - 1]

Init == InitWith(1)

\* print(text, file=f)
PrintTo(f, p, text) == [f EXCEPT ![p] = @ \o text \o <<LF>>]

\* sys.exit(code)
Exit(p, code) ==
  /\ status' = [status EXCEPT ![p] = code]
  /\ pc' = [pc EXCEPT ![p] = "done"]

InvalidJsonMsg == <<"Error", ":", SP, "Invalid", SP, "JSON", SP, "input">>
WriteErrorMsg == <<"Error", SP, "writing", SP, "to", SP, "log">>
Traceback == <<"Traceback">>

\* datetime.now().isoformat()
IsoFormat(c) == <<"T">> \o IntText(c)
\* datetime.now().strftime("%Y-%m-%d %H:%M:%S")
StrfTime(c) == <<"D", SP>> \o IntText(c)

\* the host runtime starts invocation p
Invoke(p, inputs) ==
  /\ pc[p] = "idle"
  /\ p <= dispatched
  /\ \E i \in inputs :
       /\ stdin' = [stdin EXCEPT ![p] = i.stdin]
       /\ env' = [env EXCEPT ![p] = i.env]
       /\ writable' = [writable EXCEPT ![p] = i.writable]
  /\ pc' = [pc EXCEPT ![p] = "load"]
  /\ UNCHANGED <<handler, dispatched, log0, log, clock, order, hook_input, log_entry,
                 log_line, out, err, status>>

\* the event of the Pi hook bridge
BridgeEvent(e) ==
  JObj(<< <<"tool_name", IF e.name.set THEN JStr(e.name.v) ELSE JNull>>,
          <<"tool_args", JsonLoads(EnvGet(e.args, <<"{", "}">>)).v>>,
          <<"tool_result", JsonLoads(EnvGet(e.result, <<"{", "}">>)).v>>,
          <<"source", Pi>> >>)

\* mutant: ASP_TOOL_RESULT is not checked
BridgeOkArgsOnly(e) == JsonLoads(EnvGet(e.args, <<"{", "}">>)).ok

BridgeOk(e) ==
  /\ JsonLoads(EnvGet(e.args, <<"{", "}">>)).ok
  /\ JsonLoads(EnvGet(e.result, <<"{", "}">>)).ok

\* mutant: every handler takes the bridge on blank standard input
UsesBridgeAnyHandler(h, raw) == IsBlank(raw)

\* whether the reader of handler h takes the bridge for this standard input
UsesBridge(h, raw) == h = "C" /\ IsBlank(raw)

\* the input reader: the try block of main (A, B), load_hook_input (C)
LoadInput(p) ==
  /\ pc[p] = "load"
  /\ IF UsesBridge(handler, stdin[p])
     THEN IF BridgeOk(env[p])
          THEN /\ hook_input' = [hook_input EXCEPT ![p] = BridgeEvent(env[p])]
               /\ pc' = [pc EXCEPT ![p] = "main"]
               /\ UNCHANGED <<err, status>>
          ELSE /\ err' = PrintTo(err, p, Traceback)
               /\ Exit(p, 1)
               /\ UNCHANGED hook_input
     ELSE IF JsonLoads(stdin[p]).ok
          THEN /\ hook_input' = [hook_input EXCEPT ![p] = JsonLoads(stdin[p]).v]
               /\ pc' = [pc EXCEPT ![p] = "main"]
               /\ UNCHANGED <<err, status>>
          ELSE /\ err' = PrintTo(err, p, InvalidJsonMsg)
               /\ Exit(p, 1)
               /\ UNCHANGED hook_input
  /\ UNCHANGED <<handler, dispatched, log0, log, clock, order, stdin, env, writable,
                 log_entry, log_line, out>>

\* log_entry of log-all-bash.py
EntryA(ts, hi) ==
  JObj(<< <<"timestamp", JStr(ts)>>, <<"raw_hook_payload", hi>> >>)

\* log_entry of log-failed-bash.py
EntryB(ts, hi) ==
  LET error_message == Get(hi, "error", JStr(<<>>))
      tool_input == Get(hi, "tool_input", JObj(<<>>))
  IN JObj(<< <<"timestamp", JStr(ts)>>,
             <<"exit_code", ExitCodeOf(error_message)>>,
             <<"command", Get(tool_input, "command", JNull)>>,
             <<"description", Get(tool_input, "description", JNull)>>,
             <<"error_message", error_message>>,
             <<"is_interrupt", Get(hi, "is_interrupt", JFalse)>>,
             <<"session_id", Get(hi, "session_id", JNull)>>,
             <<"cwd", Get(hi, "cwd", JNull)>>,
             <<"tool_use_id", Get(hi, "tool_use_id", JNull)>> >>)

\* str(v) as an f-string renders it
PyStr(v) ==
  CASE v.t = "str" -> v.s
    [] v.t = "null" -> <<"None">>
    [] v.t = "false" -> <<"False">>
    [] v.t = "int" -> IntText(v.n)
    [] v.t = "obj" -> JsonDumps(v, NoIndent, 0)

\* mutant: the Notification branch is missing
TagOfNoNotification(hook_event) ==
  CASE hook_event = JStr(<<"PreToolUse">>) -> "PRE_TOOL"
    [] hook_event = JStr(<<"PostToolUse">>) -> "POST_TOOL"
    [] hook_event = JStr(<<"SubagentStop">>) -> "AGENT_STOP"
    [] hook_event = JStr(<<"Stop">>) -> "END_TURN"
    [] hook_event = JStr(<<"UserPromptSubmit">>) -> "PROMPT"
    [] hook_event = JStr(<<"SessionStart">>) -> "SESSION_START"
    [] OTHER -> "UNKNOWN"

\* the tag of the branch main takes for hook_event
TagOf(hook_event) ==
  CASE hook_event = JStr(<<"PreToolUse">>) -> "PRE_TOOL"
    [] hook_event = JStr(<<"PostToolUse">>) -> "POST_TOOL"
    [] hook_event = JStr(<<"SubagentStop">>) -> "AGENT_STOP"
    [] hook_event = JStr(<<"Stop">>) -> "END_TURN"
    [] hook_event = JStr(<<"UserPromptSubmit">>) -> "PROMPT"
    [] hook_event = JStr(<<"SessionStart">>) -> "SESSION_START"
    [] hook_event = JStr(<<"Notification">>) -> "NOTIFICATION"
    [] OTHER -> "UNKNOWN"

\* summary = prompt[:100] if prompt else "N/A"
Summary(prompt) ==
  IF Truthy(prompt) THEN Slice(prompt.s, PromptPrefix) ELSE NA.s

\* what follows the tag in log_line
BodyC(tag, hi) ==
  CASE tag = "PRE_TOOL" ->
         PyStr(Get(hi, "tool_name", JNull)) \o <<SP>>
         \o JsonDumps(Get(hi, "tool_input", JObj(<<>>)), NoIndent, 0)
    [] tag = "PROMPT" -> Summary(Get(hi, "prompt", JStr(<<>>)))
    [] OTHER -> JsonDumps(hi, NoIndent, 0)

\* log_line of log-build-loop.py
LineC(ts, hi) ==
  LET tag == TagOf(Get(hi, "hook_event_name", JStr(<<>>)))
  IN <<"[">> \o ts \o <<"]", SP, tag, ":", SP>> \o BodyC(tag, hi) \o <<LF>>

\* mutant: an event without tool_name passes the filter
SkipsPresentOnly(h, hi) ==
  h \in {"A", "B"} /\ HasKey(hi, "tool_name") /\ Get(hi, "tool_name", JNull) # Bash

\* the tool-name filter of variants A and B
Skips(h, hi) == h \in {"A", "B"} /\ Get(hi, "tool_name", JNull) # Bash

\* classifier, extractor and formatter: main up to the try of the sink
Main(p) ==
  /\ pc[p] = "main"
  /\ IF Skips(handler, hook_input[p])
     THEN /\ Exit(p, 0)
          /\ UNCHANGED <<clock, log_entry, log_line>>
     ELSE /\ clock' = clock + 1
          /\ pc' = [pc EXCEPT ![p] = "write"]
          /\ UNCHANGED status
          /\ IF handler = "C"
             THEN /\ log_line' = [log_line EXCEPT
                                    ![p] = LineC(StrfTime(clock), hook_input[p])]
                  /\ UNCHANGED log_entry
             ELSE /\ log_entry' = [log_entry EXCEPT
                        ![p] = IF handler = "A"
                               THEN EntryA(IsoFormat(clock), hook_input[p])
                               ELSE EntryB(IsoFormat(clock), hook_input[p])]
                  /\ UNCHANGED log_line
  /\ UNCHANGED <<handler, dispatched, log0, log, order, stdin, env, writable,
                 hook_input, out, err>>

Separator == <<LF, "-", "-", "-", LF>>

\* the text handed to f.write
Written(h, entry, line) ==
  IF h = "C" THEN line ELSE JsonDumps(entry, Indent, 0) \o Separator

\* mutant: open(LOG_FILE, "w")
AppendToTruncating(file, text) == text

\* open(LOG_FILE, "a") ... f.write(text): one append to the end of the file
AppendTo(file, text) == file \o text

\* the sink: with open(LOG_FILE, "a") as f: f.write(...)
AppendSink(p) ==
  /\ pc[p] = "write"
  /\ IF writable[p] /\ Encodable(Written(handler, log_entry[p], log_line[p]))
     THEN /\ log' = AppendTo(log, Written(handler, log_entry[p], log_line[p]))
          /\ order' = order \o <<p>>
          /\ IF handler = "C"
             THEN Exit(p, 0)
             ELSE /\ pc' = [pc EXCEPT ![p] = "confirm"]
                  /\ UNCHANGED status
          /\ UNCHANGED err
     ELSE /\ err' = PrintTo(err, p, WriteErrorMsg)
          /\ Exit(p, 1)
          /\ UNCHANGED <<log, order>>
  /\ UNCHANGED <<handler, dispatched, log0, clock, stdin, env, writable, hook_input,
                 log_entry, log_line, out>>

\* the value whose [:40] the confirmation shows
ConfirmCommand(hi) == Get(Get(hi, "tool_input", JObj(<<>>)), "command", NA)

\* x[:40] raises TypeError unless x is a str
SliceRaises(v) == v.t # "str"

\* print raises UnicodeEncodeError on a text sys.stdout cannot encode
PrintRaises(text) == ~Encodable(text)

\* the confirmation line
Confirmation(h, hi, entry) ==
  LET cmd == Slice(ConfirmCommand(hi).s, CmdPrefix)
  IN IF h = "A"
     THEN <<"[", "LOGGED", SP, "ALL", "]", SP>> \o cmd \o <<".", ".", ".">>
     ELSE <<"[", "LOGGED", SP, "FAILURE", "]", SP, "exit", "=">>
          \o PyStr(Get(entry, "exit_code", JNull))
          \o <<SP, "cmd", "=">> \o cmd \o <<".", ".", ".">>

\* mutant: the confirmation goes to sys.stderr
ConfirmToStderr(p) ==
  /\ pc[p] = "confirm"
  /\ IF \/ SliceRaises(ConfirmCommand(hook_input[p]))
        \/ PrintRaises(Confirmation(handler, hook_input[p], log_entry[p]))
     THEN /\ err' = PrintTo(err, p, WriteErrorMsg)
          /\ Exit(p, 1)
     ELSE /\ err' = PrintTo(err, p,
                      Confirmation(handler, hook_input[p], log_entry[p]))
          /\ Exit(p, 0)
  /\ UNCHANGED <<handler, dispatched, log0, log, clock, order, stdin, env,
                 writable, hook_input, log_entry, log_line, out>>

\* the rest of the try block of variants A and B: cmd = ...[:40]; print(...)
Confirm(p) ==
  /\ pc[p] = "confirm"
  /\ IF \/ SliceRaises(ConfirmCommand(hook_input[p]))
        \/ PrintRaises(Confirmation(handler, hook_input[p], log_entry[p]))
     THEN /\ err' = PrintTo(err, p, WriteErrorMsg)
          /\ Exit(p, 1)
          /\ UNCHANGED out
     ELSE /\ out' = PrintTo(out, p,
                      Confirmation(handler, hook_input[p], log_entry[p]))
          /\ Exit(p, 0)
          /\ UNCHANGED err
  /\ UNCHANGED <<handler, dispatched, log0, log, clock, order, stdin, env, writable,
                 hook_input, log_entry, log_line>>

Next ==
  \E p \in Procs :
    \/ Invoke(p, Inputs(handler))
    \/ LoadInput(p)
    \/ Main(p)
    \/ AppendSink(p)
    \/ Confirm(p)

Spec == Init /\ [][Next]_vars

(***************************************************************************)
(* Several invocations of one handler on one log path.                     *)
(***************************************************************************)
NullCommand == JObj(<< <<"command", JNull>> >>)

ConcEvents(h) ==
  CASE h = "A" ->
         {SampleEvent("A"),
          JObj(<< <<"tool_name", Bash>>, <<"tool_input", NullCommand>>,
                  <<"hook_event_name", JStr(<<"PostToolUse">>)>> >>),
          JObj(<< <<"tool_name", Edit>>,
                  <<"hook_event_name", JStr(<<"PostToolUse">>)>> >>)}
    [] h = "B" ->
         {SampleEvent("B"),
          JObj(<< <<"tool_name", Bash>>, <<"tool_input", NullCommand>> >>),
          JObj(<< <<"tool_name", Edit>> >>)}
    [] h = "C" ->
         {SampleEvent("C"),
          JObj(<< <<"hook_event_name", JStr(<<"UserPromptSubmit">>)>>,
                  <<"prompt", JStr(<<"h", "i">>)>> >>)}

SomeInputs(h) ==
  [stdin : {TextOf(e) : e \in ConcEvents(h)} \cup {Empty},
   env : {NoEnv}, writable : {TRUE}]
  \cup [stdin : {TextOf(SampleEvent(h))}, env : {NoEnv}, writable : {FALSE}]

ConcInputsA == SomeInputs("A")
ConcInputsB == SomeInputs("B")
ConcInputsC == SomeInputs("C")
ConcInputs(h) ==
  CASE h = "A" -> ConcInputsA [] h = "B" -> ConcInputsB [] h = "C" -> ConcInputsC

ConcInit == InitWith(NumProcs)

ConcNext ==
  \E p \in Procs :
    \/ Invoke(p, ConcInputs(handler))
    \/ LoadInput(p)
    \/ Main(p)
    \/ AppendSink(p)
    \/ Confirm(p)

ConcSpec == ConcInit /\ [][ConcNext]_vars

(***************************************************************************)
(* Vocabulary of the properties.                                           *)
(***************************************************************************)
Loaded(p) == hook_input[p] # JNull
Started(p) == pc[p] # "idle"
Done(p) == pc[p] = "done"
InOrder(p) == \E i \in 1..Len(order) : order[i] = p
IsBashEvent(p) == Loaded(p) /\ Get(hook_input[p], "tool_name", Absent) = Bash
IsOtherEvent(p) == Loaded(p) /\ Get(hook_input[p], "tool_name", Absent) # Bash
NewText == SubSeq(log, Len(log0) + 1, Len(log))
Occurrences(pat, t) ==
  Cardinality({i \in 1..(Len(t) - Len(pat) + 1) :
                 SubSeq(t, i, i + Len(pat) - 1) = pat})
FirstIndex(c, t) == CHOOSE i \in 1..Len(t) : t[i] = c /\ \A j \in 1..(i - 1) : t[j] # c
ValidJson(raw) == JsonLoads(raw).ok
Reported(p, msg) == Occurrences(msg, err[p]) > 0

(***************************************************************************)
(* C1.  Variants A and B: an event whose tool_name is not "Bash" (or that  *)
(* has no tool_name) never reaches the sink: the log file is unchanged,    *)
(* nothing is printed to standard output, and the exit status is 0.        *)
(***************************************************************************)
C1_OtherToolIsNoOp ==
  \A p \in Procs :
    (handler \in {"A", "B"} /\ IsOtherEvent(p)) =>
      /\ pc[p] \in {"main", "done"}
      /\ log = log0
      /\ ~InOrder(p)
      /\ out[p] = <<>>
      /\ err[p] = <<>>
      /\ Done(p) => status[p] = 0

C1_Witness ==
  \E p \in Procs :
    /\ handler = "B" /\ Done(p) /\ Loaded(p)
    /\ ~HasKey(hook_input[p], "tool_name")
    /\ log0 = OldLog /\ log = OldLog /\ status[p] = 0

Tags == {"PRE_TOOL", "POST_TOOL", "AGENT_STOP", "END_TURN", "PROMPT",
         "SESSION_START", "NOTIFICATION", "UNKNOWN"}

TagTable ==
  {<<"PreToolUse", "PRE_TOOL">>, <<"PostToolUse", "POST_TOOL">>,
   <<"SubagentStop", "AGENT_STOP">>, <<"Stop", "END_TURN">>,
   <<"UserPromptSubmit", "PROMPT">>, <<"SessionStart", "SESSION_START">>,
   <<"Notification", "NOTIFICATION">>}

Recognised(hi) ==
  \E r \in TagTable : Get(hi, "hook_event_name", Absent) = JStr(<<r[1]>>)

ExpectedTag(hi) ==
  IF Recognised(hi)
  THEN (CHOOSE r \in TagTable :
          Get(hi, "hook_event_name", Absent) = JStr(<<r[1]>>))[2]
  ELSE "UNKNOWN"

SinkFails(p) == ~writable[p] \/ ~Encodable(log_line[p])

Malformed(p) ==
  \/ ~IsBlank(stdin[p]) /\ ~ValidJson(stdin[p])
  \/ /\ IsBlank(stdin[p])
     /\ \/ ~ValidJson(EnvGet(env[p].args, <<"{", "}">>))
        \/ ~ValidJson(EnvGet(env[p].result, <<"{", "}">>))

C4_MalformedIsFatal ==
  \A p \in Procs :
    (Started(p) /\ Malformed(p)) =>
      /\ pc[p] \in {"load", "done"}
      /\ log = log0
      /\ ~InOrder(p)
      /\ out[p] = <<>>
      /\ Done(p) => (status[p] # 0 /\ err[p] # <<>>)

C4_Witness ==
  \E p \in Procs :
    /\ handler = "C" /\ Done(p) /\ stdin[p] = Empty
    /\ env[p].args = SetTo(<<"{">>) /\ ValidJson(EnvGet(env[p].result, <<"{", "}">>))
    /\ status[p] = 1 /\ err[p] # <<>> /\ log = log0

(***************************************************************************)
(* C5.  Exit status: an invocation whose record was appended exits 0, and  *)
(* an invocation that exits 1 reporting a write error has no record in the *)
(* log file.                                                               *)
(***************************************************************************)
C5_ExitStatusMatchesLog ==
  \A p \in Procs :
    Done(p) =>
      /\ status[p] \in {0, 1}
      /\ InOrder(p) => status[p] = 0
      /\ (status[p] = 1 /\ Reported(p, WriteErrorMsg)) => ~InOrder(p)

(***************************************************************************)
(* C6 as stated.  Every handler reads the bridge when standard input is    *)
(* empty: the invocation does not fail in the reader and goes on with the  *)
(* event built from the environment, marked source = "pi".                 *)
(***************************************************************************)
BridgeFields(p) ==
  /\ Get(hook_input[p], "source", Absent) = Pi
  /\ Get(hook_input[p], "tool_name", Absent)
       = (IF env[p].name.set THEN JStr(env[p].name.v) ELSE JNull)
  /\ \E td \in JsonTexts :
       /\ td[1] = EnvGet(env[p].args, <<"{", "}">>)
       /\ Get(hook_input[p], "tool_args", Absent) = td[2]
  /\ \E td \in JsonTexts :
       /\ td[1] = EnvGet(env[p].result, <<"{", "}">>)
       /\ Get(hook_input[p], "tool_result", Absent) = td[2]
  /\ Len(hook_input[p].kv) = 4

C6_EveryHandlerHasBridge ==
  \A p \in Procs :
    /\ (pc[p] \notin {"idle", "load"} /\ stdin[p] = Empty /\ ~Malformed(p)) =>
         (Loaded(p) /\ BridgeFields(p))
    /\ (Loaded(p) /\ ~IsBlank(stdin[p])) =>
         hook_input[p] = JsonLoads(stdin[p]).v

(***************************************************************************)
(* C6 amended.  Only variant C has the bridge.  In C, blank standard input *)
(* (empty or only whitespace) with JSON in the bridge variables goes on    *)
(* with the event built from the environment, marked source = "pi", and    *)
(* any other standard input is never replaced by the bridge.  In A and B   *)
(* blank standard input is malformed input: exit 1, no event, no write.    *)
(***************************************************************************)
C6_OnlyCHasBridge ==
  \A p \in Procs :
    /\ (handler = "C" /\ pc[p] \notin {"idle", "load"} /\ IsBlank(stdin[p])
          /\ ~Malformed(p)) =>
         (Loaded(p) /\ BridgeFields(p))
    /\ (Loaded(p) /\ ~IsBlank(stdin[p])) =>
         (hook_input[p] = JsonLoads(stdin[p]).v /\ ~BridgeFields(p))
    /\ (handler \in {"A", "B"} /\ pc[p] \notin {"idle", "load"}
          /\ IsBlank(stdin[p])) =>
         (Done(p) /\ status[p] = 1 /\ ~Loaded(p) /\ ~InOrder(p)
            /\ Reported(p, InvalidJsonMsg))

C6_Witness ==
  \E p \in Procs :
    /\ handler = "C" /\ Done(p) /\ stdin[p] = Blank /\ status[p] = 0
    /\ env[p].name.set /\ env[p].args.set /\ ~env[p].result.set
    /\ BridgeFields(p) /\ InOrder(p)

(***************************************************************************)
(* C7.  Variant B, "Bash" events: when the error text begins with          *)
(* "Exit code <digits>" the exit_code of the record is the value of the    *)
(* digits; otherwise (absent, empty, no match) exit_code is null, and the  *)
(* handler still appends its record and exits 0.                           *)
(***************************************************************************)
DigitOf == ("0" :> 0) @@ ("1" :> 1) @@ ("2" :> 2) @@ ("3" :> 3) @@ ("4" :> 4)
           @@ ("5" :> 5) @@ ("6" :> 6) @@ ("7" :> 7) @@ ("8" :> 8) @@ ("9" :> 9)

RECURSIVE Horner(_, _)
Horner(acc, s) ==
  IF s # <<>> /\ Head(s) \in DOMAIN DigitOf
  THEN Horner(10 * acc + DigitOf[Head(s)], Tail(s))
  ELSE acc

BeginsWithExitCode(e) ==
  /\ e.t = "str"
  /\ Len(e.s) >= 11
  /\ SubSeq(e.s, 1, 10) = <<"E", "x", "i", "t", " ", "c", "o", "d", "e", " ">>
  /\ e.s[11] \in DOMAIN DigitOf

C7_ExitCodeParsedOrAbsent ==
  \A p \in Procs :
    (handler = "B" /\ IsBashEvent(p) /\ pc[p] \in {"write", "confirm", "done"}) =>
      LET e == Get(hook_input[p], "error", Absent)
          code == Get(log_entry[p], "exit_code", Absent)
      IN IF BeginsWithExitCode(e)
         THEN code = JInt(Horner(0, SubSeq(e.s, 11, Len(e.s))))
         ELSE /\ code = JNull
              /\ (Done(p) /\ writable[p]) => (InOrder(p) /\ status[p] = 0)

(***************************************************************************)
(* C8 as stated.  In every handler a successful invocation that was not    *)
(* skipped has printed exactly one confirmation to standard output, after  *)
(* its record was written; skipped and failed invocations print none.      *)
(***************************************************************************)
Skipped(p) == handler \in {"A", "B"} /\ IsOtherEvent(p)
Confirmations(p) == Occurrences(<<"[", "LOGGED">>, out[p])

RECURSIVE RecordsOf(_)
RecordsOf(ps) ==
  IF ps = <<>> THEN <<>>
  ELSE Written(handler, log_entry[Head(ps)], log_line[Head(ps)])
       \o RecordsOf(Tail(ps))

AllFinished == \A p \in 1..dispatched : Done(p)

C9_LogIsWholeRecords ==
  /\ log = log0 \o RecordsOf(order)
  /\ \A i, j \in 1..Len(order) : order[i] = order[j] => i = j

C9_WholeRecordsOnePerSuccess ==
  /\ C9_LogIsWholeRecords
  /\ AllFinished =>
       \A p \in 1..dispatched : InOrder(p) <=> (status[p] = 0 /\ ~Skipped(p))

(***************************************************************************)
(* C10.  Every record of variant C is one line: the text appended for an   *)
(* event holds exactly one line terminator, its last character, so the     *)
(* log has as many new lines as events logged.                             *)
(***************************************************************************)
C10_OneLinePerRecord ==
  handler = "C" =>
    /\ IsPrefix(log0, log)
    /\ Count(LF, NewText) = Len(order)
    /\ NewText # <<>> => NewText[Len(NewText)] = LF
====
